---- MODULE Spec2Model ----
(***************************************************************************)
(* Continuum browser extension: the turn-delivery queue of the background  *)
(* service worker (background.ts), the content script that feeds it, and   *)
(* the escalation state machine of the Sidebar component.                  *)
(*                                                                         *)
(* Scheduling model.  Everything runs on single-threaded JavaScript event  *)
(* loops.  One action of this module is one macrotask (a message, a fetch  *)
(* settling, a timer firing) together with the microtasks it leaves        *)
(* behind, except the then-callback of handleNewTurns, which is kept as a  *)
(* step of its own (RunBatch) that runs before any other macrotask.        *)
(***************************************************************************)
EXTENDS Integers, Sequences, FiniteSets, TLC

\* ---------------------------------------------------------------- constants

\* background.ts:11
MAX_RETRIES == 3
\* background.ts:129, the literal in setTimeout(resolve, 2000 * (retries + 1))
RetryBaseMs == 2000

\* Bounds of the model.
MaxBatches == 2      \* NEW_TURNS messages handled by the worker
MaxTurnId  == 2      \* message nodes per conversation page, hence turn ids
MaxAlerts  == 1      \* alerts in one /analyze-turn response

\* Conversation ids as getConversationId() extracts them from the URL.
Convs == {"A", "B"}

\* What a fetch of /analyze-turn can do: resolve with response.ok and a
\* parsable body, reject, resolve with !response.ok, or resolve with a body
\* that response.json() rejects.
FetchFailures == {"networkError", "badStatus", "malformedBody"}

VARIABLES
    \* --- background.ts
    processingQueues,   \* conversation id -> tail promise (a batch number), 0 = no entry
    batches,            \* the promises `next` created so far, by batch number
    badge,              \* chrome.action badge text: 0 is '', n is String(n)
    \* --- observation of the worker (history, not program state)
    sent,               \* per conversation: turn ids in the order of their first fetch
    terminal,           \* per conversation: number of turns with a terminal outcome
    lastEvent,          \* the last thing the worker did (its console log line)
    \* --- content script
    url,                    \* conversation id in window.location
    currentConversationId,
    lastSeenTurnId,
    page,                   \* per conversation: its message nodes, "text" or "empty"
    domConv,                \* the conversation whose nodes the DOM currently shows
    debounceTimer,          \* the debounce timeout of observeDOM is armed
    settleTimers,           \* armed NAVIGATION_SETTLE_MS timeouts
    \* --- Sidebar component (React 18, createRoot)
    state,                  \* the committed values of the useState hooks
    queued,                 \* the values the next render commits: `state` with the
                            \* setter calls made since the last render applied
    escalationStateRef,     \* escalationStateRef.current
    prevConversationIdRef,  \* prevConversationIdRef.current
    deps,                   \* dependency values the effects last ran with
    effectsPending,         \* a commit's passive effects have not been flushed yet
    metricsMounted,         \* conversationId of the metrics effect whose isMounted
                            \* is true and whose interval is live ("" if none)
    metricsLive,            \* per conversation: metrics fetches in flight whose
                            \* closure has isMounted = true
    metricsDead,            \* metrics fetches in flight whose isMounted is false
    k2Mounted,              \* the same for the K2 polling effect
    k2Live,
    k2Dead,
    k2TimeoutArmed,         \* the K2_TIMEOUT timeout of the mounted K2 effect is armed
    \* --- observation of the Sidebar (history, not program state)
    pendingEntries,         \* commits that entered escalated_pending since idle
    foreign,                \* `queued` holds a write of a callback created for
                            \* another conversation than the committed one
    shownForeign,           \* `state` holds such a write
    \* --- chrome.storage.local as the service worker uses it
    storedAlerts,           \* length of the 'alerts' list in chrome.storage.local
    storageGets,            \* per alert count n: storage.get callbacks not yet
                            \* run whose closure holds a result with n alerts
    storageSets,            \* list lengths of the storage.set writes in flight
    returnedAlerts,         \* history: alerts the backend has returned so far
    \* --- DriftMeter (components/DriftMeter.tsx), scores in tenths
    meterScore,             \* the driftScore prop of the last render
    meterHovered,           \* isHovered
    meterShown,             \* colour and status the last render displayed
    \* --- GraphView (the Graph tab), scores in tenths
    graphAlive,             \* a GraphView is mounted: alive.current of its ref
    graphConversationId,    \* its conversationId prop
    graphPolling,           \* conversation of the live setInterval ("" if none)
    graphPolls,             \* per slot: a poll() of the mounted GraphView that
                            \* is awaiting a fetch, or NoPoll
    graphView,              \* the useState values of the mounted GraphView
    \* --- the timer-batched service worker (part_001)
    pendingBatches,         \* per conversation: the turns of its PendingBatch
                            \* (<<>>: no entry) and whether its timer is armed
    batchRuns,              \* the processBatch calls that took a batch, in the
                            \* order they started
    batchSent               \* history, per conversation: the turns in the order
                            \* of their first submission, as <<run, position>>

workerVars  == <<processingQueues, batches, badge, sent, terminal, lastEvent>>
contentVars == <<url, currentConversationId, lastSeenTurnId, page, domConv,
                 debounceTimer, settleTimers>>
sidebarVars == <<state, queued, escalationStateRef, prevConversationIdRef,
                 deps, effectsPending, metricsMounted, metricsLive, metricsDead,
                 k2Mounted, k2Live, k2Dead, k2TimeoutArmed,
                 pendingEntries, foreign, shownForeign>>
storageVars == <<storedAlerts, storageGets, storageSets, returnedAlerts>>
meterVars   == <<meterScore, meterHovered, meterShown>>
graphVars   == <<graphAlive, graphConversationId, graphPolling, graphPolls,
                 graphView>>
batchVars   == <<pendingBatches, batchRuns, batchSent>>
auxVars     == <<meterVars, graphVars, batchVars>>
vars == <<workerVars, contentVars, sidebarVars, storageVars, auxVars>>

\* ------------------------------------------------------------------ helpers

Max(a, b) == IF a >= b THEN a ELSE b

\* Non-empty sequences of turn ids in increasing order: the shape of the
\* `turns` array of a NEW_TURNS payload (DOM order, ids = DOM positions).
TurnBatches ==
    {s \in UNION {[1..n -> 1..MaxTurnId] : n \in 1..MaxTurnId} :
        \A i \in 1..(Len(s) - 1) : s[i] < s[i + 1]}

IsPrefix(s, t) == Len(s) <= Len(t) /\ \A i \in 1..Len(s) : s[i] = t[i]

NoEvent == [kind |-> "none", conversationId |-> "", turn |-> 0, attempt |-> 0, delay |-> 0]

Event(kind, conversationId, turn, attempt, delay) ==
    [kind |-> kind, conversationId |-> conversationId, turn |-> turn,
     attempt |-> attempt, delay |-> delay]

\* ------------------------------------------------------- background worker

\* A batch is the promise `next` of one handleNewTurns call together with the
\* position of the async callback chained on `prev`:
\*   prev     the batch whose promise the callback is chained on (0: Promise.resolve())
\*   status   "queued" (callback not run yet), "running", "settled"
\*   idx      position of the for loop in `turns`
\*   retries  the `retries` argument of the analyzeTurn call in progress
\*   phase    "fetch" (awaiting fetch/json), "wait" (awaiting the retry timeout)
\*   delay    the delay of the armed retry timeout, in ms
\*   attempts fetches issued for the current turn (history)
\*   responded  the listener's sendResponse has been called for this message
\*   outcome  how `next` settled: "pending", "fulfilled" or "rejected"
\*   okSeen   a response with response.ok has arrived for the current turn
\*            (history)
NewBatch(conversationId, turns, prev) ==
    [conversationId |-> conversationId, turns |-> turns, prev |-> prev,
     status |-> "queued", idx |-> 0, retries |-> 0, phase |-> "none",
     delay |-> 0, attempts |-> 0, responded |-> FALSE, outcome |-> "pending",
     okSeen |-> FALSE]

BatchIds == 1..Len(batches)

\* The then-callback of a batch is a pending microtask: its `prev` is settled.
Runnable(b) ==
    /\ batches[b].status = "queued"
    /\ IF batches[b].prev = 0
       THEN TRUE
       ELSE batches[batches[b].prev].status = "settled"

\* The then-callback as a task of its own (the setTimeout scheduling the
\* chain replaced): it waits its turn among the other tasks.
MicrotaskPendingNever == FALSE

\* Microtasks run before the event loop takes the next macrotask.
MicrotaskPending == \E b \in BatchIds : Runnable(b)

\* handleNewTurns as it would be without the chain: every batch starts from a
\* resolved promise.
handleNewTurnsUnchained(conversationId, turns) ==
    LET next == Len(batches) + 1
    IN  /\ batches' = Append(batches, NewBatch(conversationId, turns, 0))
        /\ processingQueues' = [processingQueues EXCEPT ![conversationId] = next]
        /\ lastEvent' = Event("enqueue", conversationId, turns[1], 0, 0)
        /\ UNCHANGED <<badge, sent, terminal>>

\* handleNewTurns as it would be with one chain for all conversations: every
\* batch is chained on the batch created before it.
handleNewTurnsOneChain(conversationId, turns) ==
    LET prev == Len(batches)
        next == Len(batches) + 1
    IN  /\ batches' = Append(batches, NewBatch(conversationId, turns, prev))
        /\ processingQueues' = [processingQueues EXCEPT ![conversationId] = next]
        /\ lastEvent' = Event("enqueue", conversationId, turns[1], 0, 0)
        /\ UNCHANGED <<badge, sent, terminal>>

\* handleNewTurns, its synchronous part: chain on the conversation's tail
\* promise, make the new promise the tail.
handleNewTurns(conversationId, turns) ==
    LET prev == processingQueues[conversationId]
        next == Len(batches) + 1
    IN  /\ batches' = Append(batches, NewBatch(conversationId, turns, prev))
        /\ processingQueues' = [processingQueues EXCEPT ![conversationId] = next]
        /\ lastEvent' = Event("enqueue", conversationId, turns[1], 0, 0)
        /\ UNCHANGED <<badge, sent, terminal>>

\* The fetch of analyzeTurn(conversationId, turn, retries) is issued.
startFetch(rec, retries) ==
    [rec EXCEPT !.phase = "fetch", !.retries = retries, !.delay = 0,
                !.attempts = @ + 1]

\* The then-callback starts: first iteration of the for loop, first fetch.
RunBatch(b) ==
    /\ Runnable(b)
    /\ LET rec == batches[b]
           c   == rec.conversationId
           prevRejected == IF rec.prev = 0 THEN FALSE
                           ELSE batches[rec.prev].outcome = "rejected"
       IN  IF prevRejected
           THEN \* then() without a rejection handler: the callback is not
                \* called, `next` rejects, its finally callbacks run
                /\ batches' = [batches EXCEPT
                       ![b] = [rec EXCEPT !.status = "settled", !.responded = TRUE,
                                          !.outcome = "rejected"]]
                /\ processingQueues' =
                       IF processingQueues[c] = b
                       THEN [processingQueues EXCEPT ![c] = 0]
                       ELSE processingQueues
                /\ lastEvent' = Event("skip", c, rec.turns[1], 0, 0)
                /\ UNCHANGED sent
           ELSE /\ batches' = [batches EXCEPT
                       ![b] = startFetch([rec EXCEPT !.status = "running", !.idx = 1], 0)]
                /\ sent' = [sent EXCEPT ![c] = Append(@, rec.turns[1])]
                /\ lastEvent' = Event("fetch", c, rec.turns[1], 1, 0)
                /\ UNCHANGED processingQueues
    /\ UNCHANGED <<badge, terminal>>

\* afterTurn with the listener answering when the first analyzeTurn of the
\* batch has resolved instead of when `next` has settled.
afterTurnRespondsEarly(b) ==
    LET rec == batches[b]
        c   == rec.conversationId
    IN  /\ terminal' = [terminal EXCEPT ![c] = @ + 1]
        /\ IF rec.idx < Len(rec.turns)
           THEN /\ batches' = [batches EXCEPT
                       ![b] = startFetch([rec EXCEPT !.idx = @ + 1, !.attempts = 0,
                                                     !.responded = TRUE], 0)]
                /\ sent' = [sent EXCEPT ![c] = Append(@, rec.turns[rec.idx + 1])]
                /\ UNCHANGED processingQueues
           ELSE /\ batches' = [batches EXCEPT
                       ![b] = [rec EXCEPT !.status = "settled", !.phase = "none",
                                          !.retries = 0, !.delay = 0,
                                          !.responded = TRUE,
                                          !.outcome = "fulfilled"]]
                /\ processingQueues' =
                       IF processingQueues[c] = b
                       THEN [processingQueues EXCEPT ![c] = 0]
                       ELSE processingQueues
                /\ UNCHANGED sent

\* afterTurn with a cleanup that deletes the entry of the conversation
\* without comparing it with `next`.
afterTurnAlwaysDeletes(b) ==
    LET rec == batches[b]
        c   == rec.conversationId
    IN  /\ terminal' = [terminal EXCEPT ![c] = @ + 1]
        /\ IF rec.idx < Len(rec.turns)
           THEN /\ batches' = [batches EXCEPT
                       ![b] = startFetch([rec EXCEPT !.idx = @ + 1, !.attempts = 0], 0)]
                /\ sent' = [sent EXCEPT ![c] = Append(@, rec.turns[rec.idx + 1])]
                /\ UNCHANGED processingQueues
           ELSE /\ batches' = [batches EXCEPT
                       ![b] = [rec EXCEPT !.status = "settled", !.phase = "none",
                                          !.retries = 0, !.delay = 0,
                                          !.responded = TRUE,
                                          !.outcome = "fulfilled"]]
                /\ processingQueues' = [processingQueues EXCEPT ![c] = 0]
                /\ UNCHANGED sent

\* The awaited analyzeTurn of batch b has resolved: the for loop goes on to the
\* next turn, or the callback returns, `next` settles and its two finally
\* callbacks run (the cleanup of handleNewTurns, the listener's sendResponse).
afterTurn(b) ==
    LET rec == batches[b]
        c   == rec.conversationId
    IN  /\ terminal' = [terminal EXCEPT ![c] = @ + 1]
        /\ IF rec.idx < Len(rec.turns)
           THEN /\ batches' = [batches EXCEPT
                       ![b] = startFetch([rec EXCEPT !.idx = @ + 1, !.attempts = 0,
                                                     !.okSeen = FALSE], 0)]
                /\ sent' = [sent EXCEPT ![c] = Append(@, rec.turns[rec.idx + 1])]
                /\ UNCHANGED processingQueues
           ELSE /\ batches' = [batches EXCEPT
                       ![b] = [rec EXCEPT !.status = "settled", !.phase = "none",
                                          !.retries = 0, !.delay = 0,
                                          !.responded = TRUE,
                                          !.outcome = "fulfilled",
                                          !.okSeen = FALSE]]
                /\ processingQueues' =
                       IF processingQueues[c] = b
                       THEN [processingQueues EXCEPT ![c] = 0]
                       ELSE processingQueues
                /\ UNCHANGED sent

\* updateBadge(count)
badgeText(count) == IF count > 0 THEN count ELSE 0

updateBadge(count) == badge' = badgeText(count)

\* `alerts.push(...result.alerts)` on a list of the given length.
pushAlerts(len, n) == len + n

\* The alert side effects of one successful result with n alerts, applied to
\* the badge and the stored list without any other delivery in between.
alertSideEffects(s, n) ==
    [badge  |-> badgeText(n),
     alerts |-> IF n > 0 THEN pushAlerts(s.alerts, n) ELSE s.alerts]

\* analyzeTurn, `if (result.alerts && result.alerts.length > 0)`: the
\* notification of the first alert is write-only and is left out;
\* chrome.storage.local.get is issued with a callback that holds `result`.
storeAlerts(alerts) ==
    /\ storageGets' = IF alerts > 0
                      THEN [storageGets EXCEPT ![alerts] = @ + 1]
                      ELSE storageGets
    /\ returnedAlerts' = returnedAlerts + alerts
    /\ UNCHANGED <<storedAlerts, storageSets>>

\* analyzeTurn, try block: response.ok and a parsable body with `alerts` alerts.
FetchOk(b, alerts) ==
    /\ ~MicrotaskPending
    /\ batches[b].status = "running" /\ batches[b].phase = "fetch"
    /\ storeAlerts(alerts)
    /\ updateBadge(alerts)
    /\ lastEvent' = Event("ok", batches[b].conversationId,
                          batches[b].turns[batches[b].idx], batches[b].attempts, 0)
    /\ afterTurn(b)

\* The catch block with `retries <= MAX_RETRIES`: one retry too many.
FetchFailsOneMore(b, why) ==
    /\ ~MicrotaskPending
    /\ batches[b].status = "running" /\ batches[b].phase = "fetch"
    /\ LET rec == batches[b] IN
       IF rec.retries <= MAX_RETRIES
       THEN /\ batches' = [batches EXCEPT
                   ![b] = [rec EXCEPT !.phase = "wait",
                                      !.delay = RetryBaseMs * (rec.retries + 1)]]
            /\ lastEvent' = Event("retry", rec.conversationId, rec.turns[rec.idx],
                                  rec.attempts, RetryBaseMs * (rec.retries + 1))
            /\ UNCHANGED <<processingQueues, badge, sent, terminal>>
       ELSE /\ lastEvent' = Event("drop", rec.conversationId, rec.turns[rec.idx],
                                  rec.attempts, 0)
            /\ afterTurn(b)
            /\ UNCHANGED badge

\* A catch block that rethrows the error once the retries are used up: the
\* promise of analyzeTurn rejects, and with it the async callback and `next`.
FetchFailsThenThrows(b, why) ==
    /\ ~MicrotaskPending
    /\ batches[b].status = "running" /\ batches[b].phase = "fetch"
    /\ LET rec == batches[b]
           c   == rec.conversationId
       IN
       IF rec.retries < MAX_RETRIES
       THEN /\ batches' = [batches EXCEPT
                   ![b] = [rec EXCEPT !.phase = "wait",
                                      !.delay = RetryBaseMs * (rec.retries + 1)]]
            /\ lastEvent' = Event("retry", c, rec.turns[rec.idx],
                                  rec.attempts, RetryBaseMs * (rec.retries + 1))
            /\ UNCHANGED <<processingQueues, badge, sent, terminal>>
       ELSE /\ batches' = [batches EXCEPT
                   ![b] = [rec EXCEPT !.status = "settled", !.phase = "none",
                                      !.retries = 0, !.delay = 0,
                                      !.responded = TRUE, !.outcome = "rejected"]]
            /\ processingQueues' =
                   IF processingQueues[c] = b
                   THEN [processingQueues EXCEPT ![c] = 0]
                   ELSE processingQueues
            /\ lastEvent' = Event("drop", c, rec.turns[rec.idx], rec.attempts, 0)
            /\ UNCHANGED <<badge, sent, terminal>>

\* A catch block that, once the retries are used up, awaits a promise nothing
\* resolves.
FetchFailsThenHangs(b, why) ==
    /\ ~MicrotaskPending
    /\ batches[b].status = "running" /\ batches[b].phase = "fetch"
    /\ LET rec == batches[b] IN
       IF rec.retries < MAX_RETRIES
       THEN /\ batches' = [batches EXCEPT
                   ![b] = [rec EXCEPT !.phase = "wait",
                                      !.delay = RetryBaseMs * (rec.retries + 1)]]
            /\ lastEvent' = Event("retry", rec.conversationId, rec.turns[rec.idx],
                                  rec.attempts, RetryBaseMs * (rec.retries + 1))
            /\ UNCHANGED <<processingQueues, badge, sent, terminal>>
       ELSE /\ batches' = [batches EXCEPT ![b] = [rec EXCEPT !.phase = "none"]]
            /\ lastEvent' = Event("drop", rec.conversationId, rec.turns[rec.idx],
                                  rec.attempts, 0)
            /\ UNCHANGED <<processingQueues, badge, sent, terminal>>

\* A catch block that logs only when it retries: the last failure of a turn
\* leaves no line.
FetchFailsSilentDrop(b, why) ==
    /\ ~MicrotaskPending
    /\ batches[b].status = "running" /\ batches[b].phase = "fetch"
    /\ LET rec == batches[b] IN
       IF rec.retries < MAX_RETRIES
       THEN /\ batches' = [batches EXCEPT
                   ![b] = [rec EXCEPT !.phase = "wait",
                                      !.delay = RetryBaseMs * (rec.retries + 1),
                                      !.okSeen = (@ \/ why = "malformedBody")]]
            /\ lastEvent' = Event("retry", rec.conversationId, rec.turns[rec.idx],
                                  rec.attempts, RetryBaseMs * (rec.retries + 1))
            /\ UNCHANGED <<processingQueues, badge, sent, terminal>>
       ELSE /\ afterTurn(b)
            /\ UNCHANGED <<badge, lastEvent>>

\* analyzeTurn, catch block: the fetch rejected, the status was not ok, or the
\* body did not parse.  console.error writes the error; then retry after
\* 2000 * (retries + 1) ms, or give up.
FetchFails(b, why) ==
    /\ ~MicrotaskPending
    /\ batches[b].status = "running" /\ batches[b].phase = "fetch"
    /\ LET rec == batches[b] IN
       IF rec.retries < MAX_RETRIES
       THEN /\ batches' = [batches EXCEPT
                   ![b] = [rec EXCEPT !.phase = "wait",
                                      !.delay = RetryBaseMs * (rec.retries + 1),
                                      !.okSeen = (@ \/ why = "malformedBody")]]
            /\ lastEvent' = Event("retry", rec.conversationId, rec.turns[rec.idx],
                                  rec.attempts, RetryBaseMs * (rec.retries + 1))
            /\ UNCHANGED <<processingQueues, badge, sent, terminal>>
       ELSE /\ lastEvent' = Event("drop", rec.conversationId, rec.turns[rec.idx],
                                  rec.attempts, 0)
            /\ afterTurn(b)
            /\ UNCHANGED badge

\* The retry timeout fires: analyzeTurn(conversationId, turn, retries + 1).
RetryTimerFires(b) ==
    /\ ~MicrotaskPending
    /\ batches[b].status = "running" /\ batches[b].phase = "wait"
    /\ LET rec == batches[b] IN
       /\ batches' = [batches EXCEPT ![b] = startFetch(rec, rec.retries + 1)]
       /\ lastEvent' = Event("fetch", rec.conversationId, rec.turns[rec.idx],
                             rec.attempts + 1, 0)
    /\ UNCHANGED <<processingQueues, badge, sent, terminal>>

\* The onMessage listener takes a NEW_TURNS message.
NewTurnsMessage(conversationId, turns) ==
    /\ ~MicrotaskPending
    /\ Len(batches) < MaxBatches
    /\ handleNewTurns(conversationId, turns)

\* The callback of chrome.storage.local.get runs with the list read from the
\* store: `alerts = data.alerts || []; alerts.push(...result.alerts)`, then
\* chrome.storage.local.set({ alerts }) is issued with the extended list.
StorageGetCallback(n) ==
    /\ ~MicrotaskPending
    /\ storageGets[n] > 0
    /\ storageGets' = [storageGets EXCEPT ![n] = @ - 1]
    /\ storageSets' = storageSets \cup {pushAlerts(storedAlerts, n)}
    /\ UNCHANGED <<storedAlerts, returnedAlerts>>

\* A chrome.storage.local.set write reaches the store.
StorageSetCompletes(v) ==
    /\ ~MicrotaskPending
    /\ v \in storageSets
    /\ storedAlerts' = v
    /\ storageSets' = storageSets \ {v}
    /\ UNCHANGED <<storageGets, returnedAlerts>>

StorageInit ==
    /\ storedAlerts = 0
    /\ storageGets = [n \in 1..MaxAlerts |-> 0]
    /\ storageSets = {}
    /\ returnedAlerts = 0

WorkerInit ==
    /\ processingQueues = [c \in Convs |-> 0]
    /\ batches = <<>>
    /\ badge = 0
    /\ sent = [c \in Convs |-> <<>>]
    /\ terminal = [c \in Convs |-> 0]
    /\ lastEvent = NoEvent

\* ------------------------------------------------------------ content script

\* Bound of the model: NAVIGATION_SETTLE_MS timeouts armed at the same time.
MaxSettleTimers == 1

\* What a message node holds: text of at least 2 characters, or less.
NodeKinds == {"text", "empty"}

\* extractTurnsFromDOM over the nodes from position i on: the id of a node is
\* its 1-based position; nodes at or below lastSeenTurnId and nodes with less
\* than 2 characters of text are skipped.
RECURSIVE extractFrom(_, _, _)
extractFrom(nodes, i, lastSeen) ==
    IF i > Len(nodes)
    THEN <<>>
    ELSE (IF i > lastSeen /\ nodes[i] = "text" THEN <<i>> ELSE <<>>)
         \o extractFrom(nodes, i + 1, lastSeen)

extractTurnsFromDOM == extractFrom(page[domConv], 1, lastSeenTurnId)

\* sendTurnsToBackground(turns) with a valid extension context: the message
\* carries getConversationId() as read when it is sent, and reaches the
\* worker's onMessage listener; lastSeenTurnId moves to the highest id sent.
sendTurnsToBackground(turns) ==
    IF Len(turns) = 0
    THEN UNCHANGED <<workerVars, lastSeenTurnId>>
    ELSE /\ NewTurnsMessage(url, turns)
         /\ lastSeenTurnId' = turns[Len(turns)]

\* observeDOM(): clear the debounce timeout and arm it again.
observeDOM == debounceTimer' = TRUE

\* The page appends a message node to the conversation it shows; the
\* MutationObserver calls observeDOM.
DomAppend(kind) ==
    /\ ~MicrotaskPending
    /\ Len(page[domConv]) < MaxTurnId
    /\ page' = [page EXCEPT ![domConv] = Append(@, kind)]
    /\ observeDOM
    /\ UNCHANGED <<workerVars, storageVars, auxVars, sidebarVars, url, currentConversationId,
                   lastSeenTurnId, domConv, settleTimers>>

\* Streaming text reaches a node that had none.
DomTextArrives(i) ==
    /\ ~MicrotaskPending
    /\ i \in 1..Len(page[domConv])
    /\ page[domConv][i] = "empty"
    /\ page' = [page EXCEPT ![domConv][i] = "text"]
    /\ observeDOM
    /\ UNCHANGED <<workerVars, storageVars, auxVars, sidebarVars, url, currentConversationId,
                   lastSeenTurnId, domConv, settleTimers>>

\* The debounce timeout fires: extract, send if there is anything new.
DebounceFires ==
    /\ ~MicrotaskPending
    /\ debounceTimer
    /\ debounceTimer' = FALSE
    /\ sendTurnsToBackground(extractTurnsFromDOM)
    /\ UNCHANGED <<storageVars, auxVars, sidebarVars, url, currentConversationId, page, domConv,
                   settleTimers>>

\* onConversationChanged(), called by the patched history.pushState and by
\* popstate after the URL has become that of conversation c.
onConversationChanged(c) ==
    IF c = currentConversationId
    THEN UNCHANGED <<currentConversationId, lastSeenTurnId, settleTimers>>
    ELSE /\ currentConversationId' = c
         /\ lastSeenTurnId' = 0
         /\ settleTimers' = settleTimers + 1

\* A navigation that also deletes the queue entry of the conversation left.
NavigateDropsQueue(c) ==
    /\ ~MicrotaskPending
    /\ c # currentConversationId => settleTimers < MaxSettleTimers
    /\ url' = c
    /\ onConversationChanged(c)
    /\ processingQueues' = [processingQueues EXCEPT ![currentConversationId] = 0]
    /\ UNCHANGED <<batches, badge, sent, terminal, lastEvent, storageVars,
                   auxVars, sidebarVars, page, domConv, debounceTimer>>

\* history.pushState / popstate to the URL of conversation c.
Navigate(c) ==
    /\ ~MicrotaskPending
    /\ c # currentConversationId => settleTimers < MaxSettleTimers
    /\ url' = c
    /\ onConversationChanged(c)
    /\ UNCHANGED <<workerVars, storageVars, auxVars, sidebarVars, page, domConv, debounceTimer>>

\* The single-page application replaces the message nodes by those of the
\* conversation in the URL; the MutationObserver calls observeDOM.
DomSwitch ==
    /\ ~MicrotaskPending
    /\ domConv # url
    /\ domConv' = url
    /\ observeDOM
    /\ UNCHANGED <<workerVars, storageVars, auxVars, sidebarVars, url, currentConversationId,
                   lastSeenTurnId, page, settleTimers>>

\* The timeout of onConversationChanged fires NAVIGATION_SETTLE_MS later.
SettleFires ==
    /\ ~MicrotaskPending
    /\ settleTimers > 0
    /\ settleTimers' = settleTimers - 1
    /\ sendTurnsToBackground(extractTurnsFromDOM)
    /\ UNCHANGED <<storageVars, auxVars, sidebarVars, url, currentConversationId, page, domConv,
                   debounceTimer>>

\* waitForChatGPT() has run on an empty page of conversation "A": the
\* observer is set up (its first observeDOM armed the debounce timeout) and
\* no turn has been found yet.
ContentInit ==
    /\ url = "A"
    /\ currentConversationId = "A"
    /\ lastSeenTurnId = 0
    /\ page = [c \in Convs |-> <<>>]
    /\ domConv = "A"
    /\ debounceTimer = TRUE
    /\ settleTimers = 0

\* ------------------------------------------------------------------ Sidebar
\*
\* React 18 with createRoot.  A setter called from a timer, a fetch
\* continuation or an effect only queues an update; the render that commits
\* the queued updates is a later task (Render), and the passive effects of a
\* commit (useEffect cleanups and bodies) are flushed after it, at the latest
\* before the next render (FlushEffects).  Callbacks of timers and fetches may
\* run between these steps.  All setters are called with plain values, so the
\* queued updates are kept as the record `queued` the next render commits.
\* Scores are in tenths and confidences in hundredths.

\* Bounds of the model.
MaxInFlight    == 2      \* fetches of one poller in flight at the same time
MaxEscalations == 2      \* total_escalations in a metrics response
MaxDead        == 1      \* fetches of one poller outliving their effect

EscalationStates ==
    {"idle", "escalated_pending", "k2_confirmed", "k2_overridden", "k2_failed"}

TerminalStates == {"k2_confirmed", "k2_overridden", "k2_failed"}

\* The useState initial values.
InitialState ==
    [conversationId |-> "", driftScore |-> 0, driftVelocity |-> 0,
     isRecovering |-> FALSE, activeCommitments |-> 0, contradictions |-> 0,
     escalationState |-> "idle", escalationReason |-> "",
     k2Confidence |-> 0, k2Explanation |-> ""]

\* The setters of the reset effect applied to the queued values q.
ResetState(q) ==
    [InitialState EXCEPT !.conversationId = q.conversationId]

\* Bodies of /metrics: a field that is missing or 0 reads as 0 (`|| 0`).
MetricsBodies ==
    {[cumulative_drift_score |-> 0, drift_velocity |-> 0, is_recovering |-> FALSE,
      active |-> 0, count |-> 0],
     [cumulative_drift_score |-> 18, drift_velocity |-> 3, is_recovering |-> TRUE,
      active |-> 2, count |-> 1]}

MetricsResponses ==
    {[body |-> b, total_escalations |-> e] :
        b \in MetricsBodies, e \in 0..MaxEscalations}

\* Bodies of /k2-status.  "none" is a missing field or null; a confidence of
\* 0 and an explanation of "" also stand for the missing field (`||`).
K2Responses ==
    {[status |-> "completed", result_type |-> "confirmed",
      k2_confidence |-> 91, k2_explanation |-> "explained"],
     [status |-> "completed", result_type |-> "confirmed",
      k2_confidence |-> 0, k2_explanation |-> ""],
     [status |-> "completed", result_type |-> "overridden",
      k2_confidence |-> 0, k2_explanation |-> "explained"],
     [status |-> "completed", result_type |-> "overridden",
      k2_confidence |-> 0, k2_explanation |-> ""],
     [status |-> "completed", result_type |-> "none",
      k2_confidence |-> 0, k2_explanation |-> ""],
     [status |-> "failed", result_type |-> "none",
      k2_confidence |-> 0, k2_explanation |-> ""],
     [status |-> "pending", result_type |-> "none",
      k2_confidence |-> 0, k2_explanation |-> ""],
     [status |-> "none", result_type |-> "none",
      k2_confidence |-> 0, k2_explanation |-> ""]}

NoFetches == [c \in Convs |-> 0]

Min(a, b) == IF a <= b THEN a ELSE b

\* The callback of chrome.tabs.query (initial URL, or a tab URL change):
\* setConversationId(extractConversationId(url)).
TabUrl(c) ==
    /\ queued' = [queued EXCEPT !.conversationId = c]
    /\ UNCHANGED <<state, escalationStateRef, prevConversationIdRef, deps,
                   effectsPending, metricsMounted, metricsLive, metricsDead,
                   k2Mounted, k2Live, k2Dead, k2TimeoutArmed,
                   pendingEntries, foreign, shownForeign>>

\* A render commits the queued updates; the component body assigns
\* escalationStateRef.current; effects whose dependencies changed are
\* scheduled.
Render ==
    /\ queued # state
    /\ ~effectsPending
    /\ state' = queued
    /\ escalationStateRef' = queued.escalationState
    /\ effectsPending' = (\/ queued.conversationId # state.conversationId
                          \/ queued.escalationState # state.escalationState)
    /\ pendingEntries' =
           IF queued.escalationState = "idle" THEN 0
           ELSE IF /\ queued.escalationState = "escalated_pending"
                   /\ state.escalationState # "escalated_pending"
                THEN pendingEntries + 1
                ELSE pendingEntries
    /\ shownForeign' = foreign
    /\ UNCHANGED <<queued, prevConversationIdRef, deps, metricsMounted, metricsLive,
                   metricsDead, k2Mounted, k2Live, k2Dead, k2TimeoutArmed, foreign>>

\* A cleanup of the metrics effect that clears the interval and leaves
\* isMounted true.
metricsCleanupKeepsMounted ==
    [mounted |-> "", live |-> metricsLive, dead |-> metricsDead]

\* Cleanup of the metrics effect: isMounted = false, clearInterval.  The
\* fetches of this closure that are in flight will find isMounted false.
metricsCleanup ==
    [mounted |-> "",
     live    |-> NoFetches,
     dead    |-> Min(MaxDead,
                     metricsDead + (IF metricsMounted = "" THEN 0
                                    ELSE metricsLive[metricsMounted]))]

\* Cleanup of the K2 effect: isMounted = false, clearInterval, clearTimeout.
k2Cleanup ==
    [mounted |-> "",
     live    |-> NoFetches,
     dead    |-> Min(MaxDead,
                     k2Dead + (IF k2Mounted = "" THEN 0 ELSE k2Live[k2Mounted])),
     timeout |-> FALSE]

\* The passive effects of the last commit: the cleanups of the effects whose
\* dependencies changed, then their bodies in the order of their declaration:
\* the reset effect, the metrics polling effect, the K2 polling effect.
FlushEffects ==
    /\ effectsPending
    /\ effectsPending' = FALSE
    /\ LET conv        == state.conversationId
           convChanged == conv # deps.conversationId
           escChanged  == state.escalationState # deps.escalationState
           runReset    == convChanged /\ conv # "" /\ conv # prevConversationIdRef
           startK2     == conv # "" /\ state.escalationState = "escalated_pending"
       IN  /\ deps' = [conversationId |-> conv,
                       escalationState |-> state.escalationState]
           \* reset effect
           /\ prevConversationIdRef' = IF runReset THEN conv ELSE prevConversationIdRef
           /\ queued' = IF runReset THEN ResetState(queued) ELSE queued
           /\ foreign' = IF runReset THEN FALSE ELSE foreign
           \* metrics polling effect: pollMetrics() at once, then the interval
           /\ IF convChanged
              THEN /\ metricsMounted' = conv
                   /\ metricsLive' = IF conv = "" THEN metricsCleanup.live
                                     ELSE [metricsCleanup.live EXCEPT ![conv] = 1]
                   /\ metricsDead' = metricsCleanup.dead
              ELSE UNCHANGED <<metricsMounted, metricsLive, metricsDead>>
           \* K2 polling effect: pollK2() at once, then interval and timeout
           /\ IF convChanged \/ escChanged
              THEN /\ k2Mounted' = IF startK2 THEN conv ELSE k2Cleanup.mounted
                   /\ k2Live' = IF startK2 THEN [k2Cleanup.live EXCEPT ![conv] = 1]
                                ELSE k2Cleanup.live
                   /\ k2Dead' = k2Cleanup.dead
                   /\ k2TimeoutArmed' = IF startK2 THEN TRUE ELSE k2Cleanup.timeout
              ELSE UNCHANGED <<k2Mounted, k2Live, k2Dead, k2TimeoutArmed>>
    /\ UNCHANGED <<state, escalationStateRef, pendingEntries, shownForeign>>

\* The metrics interval fires: pollMetrics() issues a fetch.
MetricsTick ==
    /\ metricsMounted # ""
    /\ metricsLive[metricsMounted] < MaxInFlight
    /\ metricsLive' = [metricsLive EXCEPT ![metricsMounted] = @ + 1]
    /\ UNCHANGED <<state, queued, escalationStateRef, prevConversationIdRef, deps,
                   effectsPending, metricsMounted, metricsDead,
                   k2Mounted, k2Live, k2Dead, k2TimeoutArmed,
                   pendingEntries, foreign, shownForeign>>

\* pollMetrics without the `escalationStateRef.current === 'idle'` test.
applyMetricsUnguarded(q, r) ==
    LET q1 == [q EXCEPT !.driftScore = r.body.cumulative_drift_score,
                        !.driftVelocity = r.body.drift_velocity,
                        !.isRecovering = r.body.is_recovering,
                        !.activeCommitments = r.body.active,
                        !.contradictions = r.body.count]
    IN  IF r.total_escalations > 0
        THEN [q1 EXCEPT !.escalationState = "escalated_pending",
                        !.escalationReason = "Cumulative Drift > Threshold"]
        ELSE q1

\* The setters pollMetrics calls on a response r, applied to the queued values.
applyMetrics(q, r) ==
    LET q1 == [q EXCEPT !.driftScore = r.body.cumulative_drift_score,
                        !.driftVelocity = r.body.drift_velocity,
                        !.isRecovering = r.body.is_recovering,
                        !.activeCommitments = r.body.active,
                        !.contradictions = r.body.count]
    IN  IF r.total_escalations > 0 /\ escalationStateRef = "idle"
        THEN [q1 EXCEPT !.escalationState = "escalated_pending",
                        !.escalationReason = "Cumulative Drift > Threshold"]
        ELSE q1

\* A metrics fetch of a mounted closure for conversation c resolves with
\* response.ok and body r.
MetricsResponse(c, r) ==
    /\ metricsLive[c] > 0
    /\ metricsLive' = [metricsLive EXCEPT ![c] = @ - 1]
    /\ queued' = applyMetrics(queued, r)
    /\ foreign' = (foreign \/ c # state.conversationId)
    /\ UNCHANGED <<state, escalationStateRef, prevConversationIdRef, deps,
                   effectsPending, metricsMounted, metricsDead,
                   k2Mounted, k2Live, k2Dead, k2TimeoutArmed,
                   pendingEntries, shownForeign>>

\* A failure handler of pollMetrics that clears the snapshot.
MetricsFetchFailsResets(c) ==
    /\ metricsLive[c] > 0
    /\ metricsLive' = [metricsLive EXCEPT ![c] = @ - 1]
    /\ queued' = [queued EXCEPT !.driftScore = 0, !.driftVelocity = 0,
                                !.isRecovering = FALSE, !.activeCommitments = 0,
                                !.contradictions = 0]
    /\ UNCHANGED <<state, escalationStateRef, prevConversationIdRef, deps,
                   effectsPending, metricsMounted, metricsDead,
                   k2Mounted, k2Live, k2Dead, k2TimeoutArmed,
                   pendingEntries, foreign, shownForeign>>

\* A metrics fetch rejects or resolves with !response.ok: nothing is set.
MetricsFetchFails(c) ==
    /\ metricsLive[c] > 0
    /\ metricsLive' = [metricsLive EXCEPT ![c] = @ - 1]
    /\ UNCHANGED <<state, queued, escalationStateRef, prevConversationIdRef, deps,
                   effectsPending, metricsMounted, metricsDead,
                   k2Mounted, k2Live, k2Dead, k2TimeoutArmed,
                   pendingEntries, foreign, shownForeign>>

\* A metrics fetch settles after the cleanup of its effect: !isMounted, return.
MetricsDeadResponse ==
    /\ metricsDead > 0
    /\ metricsDead' = metricsDead - 1
    /\ UNCHANGED <<state, queued, escalationStateRef, prevConversationIdRef, deps,
                   effectsPending, metricsMounted, metricsLive,
                   k2Mounted, k2Live, k2Dead, k2TimeoutArmed,
                   pendingEntries, foreign, shownForeign>>

\* The K2 interval fires: pollK2() issues a fetch.
K2Tick ==
    /\ k2Mounted # ""
    /\ k2Live[k2Mounted] < MaxInFlight
    /\ k2Live' = [k2Live EXCEPT ![k2Mounted] = @ + 1]
    /\ UNCHANGED <<state, queued, escalationStateRef, prevConversationIdRef, deps,
                   effectsPending, metricsMounted, metricsLive, metricsDead,
                   k2Mounted, k2Dead, k2TimeoutArmed,
                   pendingEntries, foreign, shownForeign>>

\* pollK2 taking every completed response that is not an override for a
\* confirmation.
applyK2AnyCompleted(q, r) ==
    IF r.status = "completed"
    THEN IF r.result_type = "overridden"
         THEN [q EXCEPT !.escalationState = "k2_overridden",
                        !.k2Explanation =
                            IF r.k2_explanation = ""
                            THEN "Heuristic false positive - no actual contradiction"
                            ELSE r.k2_explanation]
         ELSE [q EXCEPT !.escalationState = "k2_confirmed",
                        !.k2Confidence = r.k2_confidence,
                        !.k2Explanation =
                            IF r.k2_explanation = ""
                            THEN "Contradiction confirmed by K2 reasoning"
                            ELSE r.k2_explanation]
    ELSE IF r.status = "failed"
         THEN [q EXCEPT !.escalationState = "k2_failed",
                        !.k2Explanation =
                            "K2 reasoning failed. Heuristic result retained."]
         ELSE q

\* The setters pollK2 calls on a response r, applied to the queued values.
applyK2(q, r) ==
    IF r.status = "completed"
    THEN IF r.result_type = "confirmed"
         THEN [q EXCEPT !.escalationState = "k2_confirmed",
                        !.k2Confidence = r.k2_confidence,
                        !.k2Explanation =
                            IF r.k2_explanation = ""
                            THEN "Contradiction confirmed by K2 reasoning"
                            ELSE r.k2_explanation]
         ELSE IF r.result_type = "overridden"
              THEN [q EXCEPT !.escalationState = "k2_overridden",
                             !.k2Explanation =
                                 IF r.k2_explanation = ""
                                 THEN "Heuristic false positive - no actual contradiction"
                                 ELSE r.k2_explanation]
              ELSE q
    ELSE IF r.status = "failed"
         THEN [q EXCEPT !.escalationState = "k2_failed",
                        !.k2Explanation =
                            "K2 reasoning failed. Heuristic result retained."]
         ELSE q

\* A K2 fetch of a mounted closure for conversation c resolves with
\* response.ok and body r.
K2Response(c, r) ==
    /\ k2Live[c] > 0
    /\ k2Live' = [k2Live EXCEPT ![c] = @ - 1]
    /\ queued' = applyK2(queued, r)
    /\ foreign' = (foreign \/ (c # state.conversationId /\ applyK2(queued, r) # queued))
    /\ UNCHANGED <<state, escalationStateRef, prevConversationIdRef, deps,
                   effectsPending, metricsMounted, metricsLive, metricsDead,
                   k2Mounted, k2Dead, k2TimeoutArmed, pendingEntries, shownForeign>>

\* A K2 fetch rejects or resolves with !response.ok.
K2FetchFails(c) ==
    /\ k2Live[c] > 0
    /\ k2Live' = [k2Live EXCEPT ![c] = @ - 1]
    /\ UNCHANGED <<state, queued, escalationStateRef, prevConversationIdRef, deps,
                   effectsPending, metricsMounted, metricsLive, metricsDead,
                   k2Mounted, k2Dead, k2TimeoutArmed,
                   pendingEntries, foreign, shownForeign>>

\* A K2 fetch settles after the cleanup of its effect.
K2DeadResponse ==
    /\ k2Dead > 0
    /\ k2Dead' = k2Dead - 1
    /\ UNCHANGED <<state, queued, escalationStateRef, prevConversationIdRef, deps,
                   effectsPending, metricsMounted, metricsLive, metricsDead,
                   k2Mounted, k2Live, k2TimeoutArmed,
                   pendingEntries, foreign, shownForeign>>

\* A timeout callback that sets nothing.
K2TimeoutSetsNothing ==
    /\ k2TimeoutArmed
    /\ k2TimeoutArmed' = FALSE
    /\ UNCHANGED <<state, queued, escalationStateRef, prevConversationIdRef, deps,
                   effectsPending, metricsMounted, metricsLive, metricsDead,
                   k2Mounted, k2Live, k2Dead, pendingEntries, foreign, shownForeign>>

\* The K2_TIMEOUT timeout of the mounted K2 effect fires.
K2Timeout ==
    /\ k2TimeoutArmed
    /\ k2TimeoutArmed' = FALSE
    /\ queued' = [queued EXCEPT
           !.escalationState = "k2_failed",
           !.k2Explanation = "K2 reasoning timed out. Heuristic result retained."]
    /\ foreign' = (foreign \/ k2Mounted # state.conversationId)
    /\ UNCHANGED <<state, escalationStateRef, prevConversationIdRef, deps,
                   effectsPending, metricsMounted, metricsLive, metricsDead,
                   k2Mounted, k2Live, k2Dead, pendingEntries, shownForeign>>

\* The Sidebar after its first render and the flush of its mount effects:
\* conversationId is '', so the reset and polling effects returned early; the
\* chrome.tabs.query of the first effect is under way.
\* ---------------------------------------------------------------- DriftMeter

\* Bound of the model: the largest drift score, in tenths, the meter is given.
MaxMeterScore == 60

\* maxScore as the Sidebar passes it (5.0), in tenths.
MeterMaxScore == 50

\* getColor: `normalized = driftScore / maxScore` compared with 0.2, 0.4, 0.6.
getColor(driftScore, maxScore) ==
    IF 10 * driftScore <= 2 * maxScore THEN "green"
    ELSE IF 10 * driftScore <= 4 * maxScore THEN "yellow"
    ELSE IF 10 * driftScore <= 6 * maxScore THEN "orange"
    ELSE "red"

getStatus(driftScore, maxScore) ==
    IF 10 * driftScore <= 2 * maxScore THEN "Stable"
    ELSE IF 10 * driftScore <= 4 * maxScore THEN "Tension Building"
    ELSE IF 10 * driftScore <= 6 * maxScore THEN "High Instability"
    ELSE "Escalated"

\* The Sidebar renders <DriftMeter driftScore={driftScore} maxScore={5.0} />.
MeterRender(driftScore) ==
    /\ meterScore' = driftScore
    /\ meterShown' = [color  |-> getColor(driftScore, MeterMaxScore),
                      status |-> getStatus(driftScore, MeterMaxScore)]
    /\ UNCHANGED meterHovered

\* onMouseEnter / onMouseLeave.
MeterHover(h) ==
    /\ meterHovered # h
    /\ meterHovered' = h
    /\ UNCHANGED <<meterScore, meterShown>>

MeterInit ==
    /\ meterScore = 0
    /\ meterHovered = FALSE
    /\ meterShown = [color  |-> getColor(0, MeterMaxScore),
                     status |-> getStatus(0, MeterMaxScore)]

SidebarInit ==
    /\ state = InitialState
    /\ queued = InitialState
    /\ escalationStateRef = "idle"
    /\ prevConversationIdRef = ""
    /\ deps = [conversationId |-> "", escalationState |-> "idle"]
    /\ effectsPending = FALSE
    /\ metricsMounted = ""
    /\ metricsLive = NoFetches
    /\ metricsDead = 0
    /\ k2Mounted = ""
    /\ k2Live = NoFetches
    /\ k2Dead = 0
    /\ k2TimeoutArmed = FALSE
    /\ pendingEntries = 0
    /\ foreign = FALSE
    /\ shownForeign = FALSE

\* ------------------------------------------------------------ specifications

\* ------------------------------------------------------------------ GraphView

\* Bound of the model: poll() calls of one GraphView awaiting a fetch.
MaxGraphPolls == 2

\* THRESHOLD (2.0) and the Tension mark (1.0) of structState, in tenths.
GraphUnstable == 20
GraphTension  == 10

\* nT when the conversation has no turns.
GraphDefaultMaxTurn == 20

\* MOCK, by its first and its last point, and MOCK_MAX.
MOCK     == <<[turn |-> 0, score |-> 0], [turn |-> 27, score |-> 33]>>
MOCK_MAX == 28

NoPoll == [conv |-> "", stage |-> "none", score |-> 0]

\* The useState initial values of GraphView.
GraphInitial ==
    [points |-> MOCK, maxTurn |-> MOCK_MAX, driftScore |-> 33,
     structState |-> "Unstable", escalationCount |-> 1, isMock |-> TRUE,
     k2 |-> [status |-> "idle", confidence |-> 0, explanation |-> ""]]

\* Bodies of /conversations/{id}: drift events (not in turn order) and the
\* highest turn id (0: no turns).
GraphConversations ==
    {[drift_events |-> <<>>, turns |-> 0],
     [drift_events |-> <<>>, turns |-> 3],
     [drift_events |-> <<[detected_at_turn |-> 3, drift_magnitude |-> 5],
                         [detected_at_turn |-> 1, drift_magnitude |-> 13]>>,
      turns |-> 3]}

\* Bodies of /k2-status as GraphView reads them: those of K2Responses with
\* the escalation_active field.
GraphK2Responses ==
    {[status |-> r.status, result_type |-> r.result_type,
      k2_confidence |-> r.k2_confidence, k2_explanation |-> r.k2_explanation,
      escalation_active |-> a] : r \in K2Responses, a \in BOOLEAN}

\* `for (const e of sorted) { cum += e.drift_magnitude; pts.push(...) }`
RECURSIVE cumulativePoints(_, _, _)
cumulativePoints(sorted, i, cum) ==
    IF i > Len(sorted)
    THEN <<>>
    ELSE <<[turn |-> sorted[i].detected_at_turn,
            score |-> cum + sorted[i].drift_magnitude]>>
         \o cumulativePoints(sorted, i + 1, cum + sorted[i].drift_magnitude)

\* The setters of poll() after the conversation body conv has arrived, for a
\* poll whose metrics response had the given score.
applyConversation(v, conv, score) ==
    LET nT == IF conv.turns > 0 THEN conv.turns ELSE GraphDefaultMaxTurn
        sorted == SortSeq(conv.drift_events,
                          LAMBDA a, b : a.detected_at_turn < b.detected_at_turn)
        pts == <<[turn |-> 0, score |-> 0]>> \o cumulativePoints(sorted, 1, 0)
    IN IF Len(conv.drift_events) > 0
       THEN [v EXCEPT !.maxTurn = nT, !.isMock = FALSE,
                      !.points = IF pts[Len(pts)].turn < nT
                                 THEN Append(pts, [turn |-> nT, score |-> score])
                                 ELSE pts]
       ELSE IF score > 0
       THEN [v EXCEPT !.maxTurn = nT, !.isMock = FALSE,
                      !.points = <<[turn |-> 0, score |-> 0],
                                   [turn |-> nT, score |-> score]>>]
       ELSE IF conv.turns > 0
       THEN [v EXCEPT !.maxTurn = nT, !.isMock = FALSE,
                      !.points = <<[turn |-> 0, score |-> 0],
                                   [turn |-> nT, score |-> 0]>>]
       ELSE [v EXCEPT !.maxTurn = MOCK_MAX, !.isMock = TRUE, !.points = MOCK]

\* The K2Data poll() sets on a /k2-status body k; the value it found when no
\* branch applies.
graphK2(old, k) ==
    IF ~k.escalation_active \/ k.status = "none"
    THEN [status |-> "idle", confidence |-> 0, explanation |-> ""]
    ELSE IF k.status = "pending"
    THEN [status |-> "pending", confidence |-> 0, explanation |-> ""]
    ELSE IF k.status = "completed"
    THEN [status |-> IF k.result_type = "confirmed" THEN "confirmed"
                     ELSE "overridden",
          confidence |-> k.k2_confidence, explanation |-> k.k2_explanation]
    ELSE IF k.status = "failed"
    THEN [status |-> "failed", confidence |-> 0, explanation |-> k.k2_explanation]
    ELSE old

GraphSlots == 1..MaxGraphPolls

FreeSlots == {p \in GraphSlots : graphPolls[p] = NoPoll}

\* poll() is called for conversation c: it awaits the metrics fetch.
startPoll(polls, c) ==
    LET p == CHOOSE q \in FreeSlots : \A o \in FreeSlots : q <= o
    IN [polls EXCEPT ![p] = [conv |-> c, stage |-> "metrics", score |-> 0]]

\* The polling effect for conversationId c: nothing without an id, else
\* poll() at once and every 3000 ms.
graphEffect(polls, c) ==
    /\ c # "" => FreeSlots # {}
    /\ graphPolling' = c
    /\ graphPolls' = IF c = "" THEN polls ELSE startPoll(polls, c)

\* The Graph tab is opened: a GraphView is mounted with conversationId c.
GraphMount(c) ==
    /\ ~graphAlive
    /\ graphAlive' = TRUE
    /\ graphConversationId' = c
    /\ graphView' = GraphInitial
    /\ graphEffect(graphPolls, c)

\* The Graph tab is left: alive.current = false and clearInterval.  The polls
\* in flight return at their next `!alive.current` test and are forgotten.
GraphUnmount ==
    /\ graphAlive
    /\ graphAlive' = FALSE
    /\ graphPolling' = ""
    /\ graphPolls' = [p \in GraphSlots |-> NoPoll]
    /\ UNCHANGED <<graphConversationId, graphView>>

\* The Sidebar renders the mounted GraphView with another conversationId: the
\* effect's cleanup clears the interval, the effect runs again.
GraphProps(c) ==
    /\ graphAlive
    /\ c # graphConversationId
    /\ graphConversationId' = c
    /\ graphEffect(graphPolls, c)
    /\ UNCHANGED <<graphAlive, graphView>>

\* The interval fires: poll().
GraphTick ==
    /\ graphAlive /\ graphPolling # ""
    /\ FreeSlots # {}
    /\ graphPolls' = startPoll(graphPolls, graphPolling)
    /\ UNCHANGED <<graphAlive, graphConversationId, graphPolling, graphView>>

\* The metrics fetch of the poll in slot p resolves with response.ok and
\* body m; the poll goes on to fetch the conversation.
GraphMetricsResponse(p, m) ==
    /\ graphPolls[p].stage = "metrics"
    /\ LET score == m.body.cumulative_drift_score IN
       /\ graphView' = [graphView EXCEPT
              !.driftScore = score,
              !.structState = IF score >= GraphUnstable THEN "Unstable"
                              ELSE IF score >= GraphTension THEN "Tension"
                              ELSE "Stable",
              !.escalationCount = m.total_escalations]
       /\ graphPolls' = [graphPolls EXCEPT ![p].stage = "conversation",
                                           ![p].score = score]
    /\ UNCHANGED <<graphAlive, graphConversationId, graphPolling>>

\* The conversation fetch resolves; the poll goes on to fetch /k2-status.
GraphConversationResponse(p, conv) ==
    /\ graphPolls[p].stage = "conversation"
    /\ graphView' = applyConversation(graphView, conv, graphPolls[p].score)
    /\ graphPolls' = [graphPolls EXCEPT ![p].stage = "k2"]
    /\ UNCHANGED <<graphAlive, graphConversationId, graphPolling>>

\* The /k2-status fetch resolves; the poll is over.
GraphK2Response(p, k) ==
    /\ graphPolls[p].stage = "k2"
    /\ graphView' = [graphView EXCEPT !.k2 = graphK2(@, k)]
    /\ graphPolls' = [graphPolls EXCEPT ![p] = NoPoll]
    /\ UNCHANGED <<graphAlive, graphConversationId, graphPolling>>

\* A fetch of the poll rejects or resolves with !ok: the poll is over and
\* the values are kept.
GraphFetchFails(p) ==
    /\ graphPolls[p] # NoPoll
    /\ graphPolls' = [graphPolls EXCEPT ![p] = NoPoll]
    /\ UNCHANGED <<graphAlive, graphConversationId, graphPolling, graphView>>

\* The Sidebar opens on the Overview tab: no GraphView is mounted.
GraphInit ==
    /\ graphAlive = FALSE
    /\ graphConversationId = ""
    /\ graphPolling = ""
    /\ graphPolls = [p \in GraphSlots |-> NoPoll]
    /\ graphView = GraphInitial

\* ------------------------------------------- the timer-batched service worker

\* Bounds of the model: turns that arrive in all, and processBatch calls.
MaxArrived == 3
MaxRuns    == 2

NoPending == [turns |-> <<>>, timer |-> FALSE]

RunIds == 1..Len(batchRuns)

\* The turns that have arrived for conversation c, in arrival order: those of
\* the batches taken by processBatch, then those of the pending batch.
RECURSIVE arrivedFrom(_, _)
arrivedFrom(c, r) ==
    IF r > Len(batchRuns)
    THEN pendingBatches[c].turns
    ELSE (IF batchRuns[r].conversationId = c THEN batchRuns[r].turns ELSE <<>>)
         \o arrivedFrom(c, r + 1)

\* The number of turns that have arrived for the conversations of S.
RECURSIVE SumLen(_)
SumLen(S) ==
    IF S = {} THEN 0
    ELSE LET c == CHOOSE x \in S : TRUE
         IN Len(arrivedFrom(c, 1)) + SumLen(S \ {c})

\* handleNewTurns of the batching worker: push the turns on the conversation's
\* batch, clear its timer and arm a new one of BATCH_DELAY_MS.
batchNewTurns(conversationId, turns) ==
    /\ SumLen(Convs) + Len(turns) <= MaxArrived
    /\ pendingBatches' = [pendingBatches EXCEPT
           ![conversationId] = [turns |-> @.turns \o turns, timer |-> TRUE]]
    /\ UNCHANGED <<batchRuns, batchSent>>

\* The first attempt of the turn at position i of run r is issued.
firstSubmission(sentLog, c, r, i) == [sentLog EXCEPT ![c] = Append(@, <<r, i>>)]

\* The batch timer fires: processBatch(conversationId) takes the batch,
\* deletes the entry and calls analyzeTurn on the first turn, up to its fetch.
processBatch(conversationId) ==
    /\ pendingBatches[conversationId].timer
    /\ Len(batchRuns) < MaxRuns
    /\ pendingBatches' = [pendingBatches EXCEPT ![conversationId] = NoPending]
    /\ batchRuns' = Append(batchRuns,
           [conversationId |-> conversationId,
            turns |-> pendingBatches[conversationId].turns,
            idx |-> 1, retries |-> 0, phase |-> "fetch"])
    /\ batchSent' = firstSubmission(batchSent, conversationId,
                                    Len(batchRuns) + 1, 1)

\* analyzeTurn has returned for the current turn of run r: the for loop calls
\* it on the next turn, or processBatch returns.
batchAfterTurn(r) ==
    LET run == batchRuns[r] IN
    IF run.idx < Len(run.turns)
    THEN /\ batchRuns' = [batchRuns EXCEPT ![r] = [run EXCEPT !.idx = @ + 1,
                                                             !.retries = 0,
                                                             !.phase = "fetch"]]
         /\ batchSent' = firstSubmission(batchSent, run.conversationId, r,
                                         run.idx + 1)
    ELSE /\ batchRuns' = [batchRuns EXCEPT ![r] = [run EXCEPT !.retries = 0,
                                                             !.phase = "done"]]
         /\ UNCHANGED batchSent

\* analyzeTurn of the batching worker, try block: the same alert side effects.
BatchFetchOk(r, alerts) ==
    /\ batchRuns[r].phase = "fetch"
    /\ storeAlerts(alerts)
    /\ updateBadge(alerts)
    /\ batchAfterTurn(r)
    /\ UNCHANGED pendingBatches

\* analyzeTurn of the batching worker, catch block.
BatchFetchFails(r) ==
    /\ batchRuns[r].phase = "fetch"
    /\ IF batchRuns[r].retries < MAX_RETRIES
       THEN /\ batchRuns' = [batchRuns EXCEPT ![r].phase = "wait"]
            /\ UNCHANGED batchSent
       ELSE batchAfterTurn(r)
    /\ UNCHANGED pendingBatches

\* The retry timeout fires: analyzeTurn(conversationId, turn, retries + 1).
BatchRetryTimerFires(r) ==
    /\ batchRuns[r].phase = "wait"
    /\ batchRuns' = [batchRuns EXCEPT ![r].phase = "fetch", ![r].retries = @ + 1]
    /\ UNCHANGED <<pendingBatches, batchSent>>

BatchInit ==
    /\ pendingBatches = [c \in Convs |-> NoPending]
    /\ batchRuns = <<>>
    /\ batchSent = [c \in Convs |-> <<>>]

Init ==
    /\ WorkerInit /\ ContentInit /\ SidebarInit /\ StorageInit /\ MeterInit
    /\ GraphInit /\ BatchInit

\* The NEW_TURNS messages of the delivery specification: any conversation, any
\* batch.
ReceiveAny ==
    /\ \E c \in Convs, turns \in TurnBatches : NewTurnsMessage(c, turns)
    /\ UNCHANGED <<contentVars, sidebarVars, storageVars, auxVars>>

StartBatch    == (\E b \in BatchIds : RunBatch(b)) /\ UNCHANGED <<contentVars, sidebarVars, storageVars, auxVars>>
FetchSucceeds == (\E b \in BatchIds, alerts \in 0..MaxAlerts : FetchOk(b, alerts))
                 /\ UNCHANGED <<contentVars, sidebarVars, auxVars>>
FetchFailure  == (\E b \in BatchIds, why \in FetchFailures : FetchFails(b, why))
                 /\ UNCHANGED <<contentVars, sidebarVars, storageVars, auxVars>>
RetryTimer    == (\E b \in BatchIds : RetryTimerFires(b)) /\ UNCHANGED <<contentVars, sidebarVars, storageVars, auxVars>>

\* The delivery queue under every sequence of NEW_TURNS messages.
NextDelivery ==
    \/ ReceiveAny
    \/ StartBatch
    \/ FetchSucceeds
    \/ FetchFailure
    \/ RetryTimer

SpecDelivery == Init /\ [][NextDelivery]_vars

\* The delivery queue when every fetch settles, every retry timeout fires and
\* every microtask runs.
SpecDeliveryFair ==
    /\ Init /\ [][NextDelivery]_vars
    /\ WF_vars(StartBatch)
    /\ WF_vars(FetchSucceeds \/ FetchFailure)
    /\ WF_vars(RetryTimer)

\* A response without alerts (the alert side effects are followed under
\* SpecAlerts).
FetchSucceedsQuiet ==
    /\ \E b \in BatchIds : FetchOk(b, 0)
    /\ UNCHANGED <<contentVars, sidebarVars, auxVars>>

\* The content script feeding the delivery queue, on pages whose message
\* nodes have their text when they are appended.
NextPipeline ==
    \/ DomAppend("text")
    \/ DebounceFires
    \/ \E c \in Convs : Navigate(c)
    \/ DomSwitch
    \/ SettleFires
    \/ StartBatch
    \/ FetchSucceedsQuiet
    \/ FetchFailure
    \/ RetryTimer

SpecPipeline == Init /\ [][NextPipeline]_vars

\* The content script alone: message nodes with and without text, streaming
\* text, navigation, and the worker's then-callbacks (no fetch completes).
DomAppends == \E kind \in NodeKinds : DomAppend(kind)
DomText    == \E i \in 1..MaxTurnId : DomTextArrives(i)
Navigates  == \E c \in Convs : Navigate(c)

NextContent ==
    \/ DomAppends
    \/ DomText
    \/ DebounceFires
    \/ Navigates
    \/ DomSwitch
    \/ SettleFires
    \/ StartBatch

SpecContent == Init /\ [][NextContent]_vars

\* The alert side effects: deliveries that succeed, and the storage callbacks
\* they leave behind.
StorageGet ==
    /\ \E n \in 1..MaxAlerts : StorageGetCallback(n)
    /\ UNCHANGED <<workerVars, contentVars, sidebarVars, auxVars>>
StorageSet ==
    /\ \E v \in storageSets : StorageSetCompletes(v)
    /\ UNCHANGED <<workerVars, contentVars, sidebarVars, auxVars>>

NextAlerts ==
    \/ ReceiveAny
    \/ StartBatch
    \/ FetchSucceeds
    \/ StorageGet
    \/ StorageSet

SpecAlerts == Init /\ [][NextAlerts]_vars

\* The DriftMeter under every drift score of the bound.
MeterRenders ==
    /\ \E d \in 0..MaxMeterScore : MeterRender(d)
    /\ UNCHANGED <<workerVars, contentVars, sidebarVars, storageVars, graphVars, batchVars>>
MeterHovers ==
    /\ \E h \in BOOLEAN : MeterHover(h)
    /\ UNCHANGED <<workerVars, contentVars, sidebarVars, storageVars, graphVars, batchVars>>

NextMeter == MeterRenders \/ MeterHovers

SpecMeter == Init /\ [][NextMeter]_vars

\* The Graph tab: the tab is opened and left, the Sidebar's conversation
\* changes, the interval fires and the three fetches of a poll complete.
GraphOthers ==
    UNCHANGED <<workerVars, contentVars, sidebarVars, storageVars, meterVars, batchVars>>

GraphMounts    == (\E c \in Convs \cup {""} : GraphMount(c)) /\ GraphOthers
GraphUnmounts  == GraphUnmount /\ GraphOthers
GraphRerenders == (\E c \in Convs \cup {""} : GraphProps(c)) /\ GraphOthers
GraphTicks     == GraphTick /\ GraphOthers
GraphMetrics   ==
    /\ \E p \in GraphSlots, m \in MetricsResponses : GraphMetricsResponse(p, m)
    /\ GraphOthers
GraphConversation ==
    /\ \E p \in GraphSlots, conv \in GraphConversations :
           GraphConversationResponse(p, conv)
    /\ GraphOthers
GraphK2 ==
    /\ \E p \in GraphSlots, k \in GraphK2Responses : GraphK2Response(p, k)
    /\ GraphOthers
GraphFailure == (\E p \in GraphSlots : GraphFetchFails(p)) /\ GraphOthers

NextGraph ==
    \/ GraphMounts
    \/ GraphUnmounts
    \/ GraphRerenders
    \/ GraphTicks
    \/ GraphMetrics
    \/ GraphConversation
    \/ GraphK2
    \/ GraphFailure

SpecGraph == Init /\ [][NextGraph]_vars

\* The timer-batched worker under NEW_TURNS messages for any conversation.
BatchOthers ==
    UNCHANGED <<processingQueues, batches, sent, terminal, lastEvent,
                contentVars, sidebarVars, meterVars, graphVars>>

BatchReceive ==
    /\ \E c \in Convs, turns \in TurnBatches : batchNewTurns(c, turns)
    /\ UNCHANGED <<badge, storageVars>> /\ BatchOthers
BatchTimer ==
    /\ \E c \in Convs : processBatch(c)
    /\ UNCHANGED <<badge, storageVars>> /\ BatchOthers
BatchSucceeds ==
    /\ \E r \in RunIds, alerts \in 0..MaxAlerts : BatchFetchOk(r, alerts)
    /\ BatchOthers
BatchFailure ==
    /\ \E r \in RunIds : BatchFetchFails(r)
    /\ UNCHANGED <<badge, storageVars>> /\ BatchOthers
BatchRetryTimer ==
    /\ \E r \in RunIds : BatchRetryTimerFires(r)
    /\ UNCHANGED <<badge, storageVars>> /\ BatchOthers

NextBatch ==
    \/ BatchReceive
    \/ BatchTimer
    \/ BatchSucceeds
    \/ BatchFailure
    \/ BatchRetryTimer

SpecBatch == Init /\ [][NextBatch]_vars

\* The Sidebar under every order of URL changes, renders, effect flushes,
\* timer callbacks and fetch results.
NextSidebar ==
    \/ (\E c \in Convs : TabUrl(c)) /\ UNCHANGED <<workerVars, contentVars, storageVars, auxVars>>
    \/ Render /\ UNCHANGED <<workerVars, contentVars, storageVars, auxVars>>
    \/ FlushEffects /\ UNCHANGED <<workerVars, contentVars, storageVars, auxVars>>
    \/ MetricsTick /\ UNCHANGED <<workerVars, contentVars, storageVars, auxVars>>
    \/ (\E c \in Convs, r \in MetricsResponses : MetricsResponse(c, r))
           /\ UNCHANGED <<workerVars, contentVars, storageVars, auxVars>>
    \/ (\E c \in Convs : MetricsFetchFails(c)) /\ UNCHANGED <<workerVars, contentVars, storageVars, auxVars>>
    \/ MetricsDeadResponse /\ UNCHANGED <<workerVars, contentVars, storageVars, auxVars>>
    \/ K2Tick /\ UNCHANGED <<workerVars, contentVars, storageVars, auxVars>>
    \/ (\E c \in Convs, r \in K2Responses : K2Response(c, r))
           /\ UNCHANGED <<workerVars, contentVars, storageVars, auxVars>>
    \/ (\E c \in Convs : K2FetchFails(c)) /\ UNCHANGED <<workerVars, contentVars, storageVars, auxVars>>
    \/ K2DeadResponse /\ UNCHANGED <<workerVars, contentVars, storageVars, auxVars>>
    \/ K2Timeout /\ UNCHANGED <<workerVars, contentVars, storageVars, auxVars>>

SpecSidebar == Init /\ [][NextSidebar]_vars

\* Bodies of /k2-status of a verification that never produces a result:
\* status pending, no status, or completed without a known result_type.
StalledK2Responses ==
    {r \in K2Responses :
        r.status \in {"pending", "none"}
            \/ (r.status = "completed" /\ r.result_type = "none")}

RenderStep    == Render /\ UNCHANGED <<workerVars, contentVars, storageVars, auxVars>>
FlushStep     == FlushEffects /\ UNCHANGED <<workerVars, contentVars, storageVars, auxVars>>
K2TimeoutStep == K2Timeout /\ UNCHANGED <<workerVars, contentVars, storageVars, auxVars>>

\* The Sidebar in front of a verification that never produces a result.
NextSidebarStalled ==
    \/ (\E c \in Convs : TabUrl(c)) /\ UNCHANGED <<workerVars, contentVars, storageVars, auxVars>>
    \/ RenderStep
    \/ FlushStep
    \/ MetricsTick /\ UNCHANGED <<workerVars, contentVars, storageVars, auxVars>>
    \/ (\E c \in Convs, r \in MetricsResponses : MetricsResponse(c, r))
           /\ UNCHANGED <<workerVars, contentVars, storageVars, auxVars>>
    \/ (\E c \in Convs : MetricsFetchFails(c)) /\ UNCHANGED <<workerVars, contentVars, storageVars, auxVars>>
    \/ MetricsDeadResponse /\ UNCHANGED <<workerVars, contentVars, storageVars, auxVars>>
    \/ K2Tick /\ UNCHANGED <<workerVars, contentVars, storageVars, auxVars>>
    \/ (\E c \in Convs, r \in StalledK2Responses : K2Response(c, r))
           /\ UNCHANGED <<workerVars, contentVars, storageVars, auxVars>>
    \/ (\E c \in Convs : K2FetchFails(c)) /\ UNCHANGED <<workerVars, contentVars, storageVars, auxVars>>
    \/ K2DeadResponse /\ UNCHANGED <<workerVars, contentVars, storageVars, auxVars>>
    \/ K2TimeoutStep

\* React renders after an update and runs the effects of a commit; a timeout
\* that stays armed fires.
SpecSidebarStalled ==
    /\ Init /\ [][NextSidebarStalled]_vars
    /\ WF_vars(RenderStep) /\ WF_vars(FlushStep) /\ WF_vars(K2TimeoutStep)

\* ------------------------------------------------------ delivery queue claims

\* The turn ids enqueued for conversation c, in enqueue order (batch order,
\* then in-batch order).
RECURSIVE EnqueuedFrom(_, _)
EnqueuedFrom(c, b) ==
    IF b > Len(batches)
    THEN <<>>
    ELSE (IF batches[b].conversationId = c THEN batches[b].turns ELSE <<>>)
         \o EnqueuedFrom(c, b + 1)

Enqueued(c) == EnqueuedFrom(c, 1)

InProgress(c) ==
    {b \in BatchIds : batches[b].conversationId = c /\ batches[b].status = "running"}

\* C1: per conversation, the first fetches of the turns are issued in enqueue
\* order (the log of first fetches is a prefix of the enqueued turns), the
\* first fetch of a turn is issued only when every turn before it has its
\* terminal outcome, and at most one batch of a conversation has a fetch or a
\* retry wait in progress.
C1_FifoPerConversation ==
    \A c \in Convs :
        /\ IsPrefix(sent[c], Enqueued(c))
        /\ Len(sent[c]) <= terminal[c] + 1
        /\ Cardinality(InProgress(c)) <= 1

\* A second batch enqueued behind a running two-turn batch of the same
\* conversation has had its first turn submitted.
C1_Witness ==
    /\ Len(batches) = 2
    /\ batches[2].prev = 1
    /\ Len(batches[1].turns) = 2
    /\ batches[2].status = "running"
    /\ Len(sent[batches[2].conversationId]) = 3

\* C2: a turn is dropped only after its 4th failed attempt, the waits before
\* the retries are 2000, 4000 and 6000 ms, no turn is fetched more than 4
\* times, and in the step that drops a turn the batch goes on at once: it is
\* fetching the next turn for the first time, or it has settled.
C2_BoundedRetry ==
    /\ lastEvent.kind = "drop" => lastEvent.attempt = 4
    /\ lastEvent.kind = "retry" =>
           /\ lastEvent.attempt \in 1..3
           /\ lastEvent.delay = 2000 * lastEvent.attempt
    /\ \A b \in BatchIds :
           /\ batches[b].attempts <= 4
           /\ batches[b].phase = "wait" =>
                  batches[b].delay = 2000 * batches[b].attempts
           /\ (lastEvent.kind = "drop"
                  /\ batches[b].conversationId = lastEvent.conversationId
                  /\ batches[b].status = "running")
              => /\ batches[b].phase = "fetch"
                 /\ batches[b].attempts = 1
                 /\ batches[b].idx > 1

\* The first turn of a two-turn batch has just been dropped, and the second
\* is being fetched.
C2_Witness ==
    /\ lastEvent.kind = "drop"
    /\ \E b \in BatchIds :
           /\ batches[b].conversationId = lastEvent.conversationId
           /\ batches[b].status = "running"
           /\ batches[b].idx = 2
           /\ batches[b].phase = "fetch"

\* C3: a batch is only ever chained on a batch of its own conversation, so a
\* batch that has not started waits for nothing but an unsettled earlier
\* batch of the same conversation, and each conversation's first fetches
\* follow its own enqueue order.
C3_ConversationIsolation ==
    \A b \in BatchIds :
        /\ batches[b].prev # 0 =>
               batches[batches[b].prev].conversationId = batches[b].conversationId
        /\ batches[b].status = "queued" /\ ~Runnable(b) =>
               /\ batches[b].prev \in InProgress(batches[b].conversationId)
                      \cup {p \in BatchIds : batches[p].status = "queued"}
        /\ batches[b].status # "queued" =>
               \E i \in 1..Len(sent[batches[b].conversationId]) :
                   sent[batches[b].conversationId][i] = batches[b].turns[1]

\* Conversation "A" is in a retry wait on the first turn of its batch, and
\* the batch of "B", which arrived later, has settled.
C3_Witness ==
    /\ Len(batches) = 2
    /\ batches[1].conversationId = "A" /\ batches[2].conversationId = "B"
    /\ batches[1].idx = 1 /\ batches[1].phase = "wait" /\ batches[1].retries >= 1
    /\ batches[2].status = "settled"

\* C4: no turn is submitted whose id is at or below an id already submitted
\* for the conversation: per conversation the ids of the first fetches
\* increase strictly.
C4_DedupNoSubmission ==
    \A c \in Convs :
        \A i \in 1..Len(sent[c]) : \A j \in 1..Len(sent[c]) :
            i < j => sent[c][i] < sent[c][j]

\* ----------------------------------------------------------- Sidebar claims

\* A step in which a K2 callback of a mounted closure ran: a fetch resolved
\* with a body, or the timeout fired.
K2CallbackStep == (\E c \in Convs, r \in K2Responses : K2Response(c, r)) \/ K2Timeout

\* C5: between two idle states the escalation state enters escalated_pending
\* at most once; a metrics response that reports an escalation while the
\* state is idle sets escalated_pending, and every other metrics response,
\* whatever its escalation count, leaves the escalation state it finds as
\* it is.
C5_EdgeTriggered ==
    /\ [](pendingEntries <= 1)
    /\ [][\A c \in Convs, r \in MetricsResponses :
              MetricsResponse(c, r) =>
                  IF r.total_escalations > 0 /\ state.escalationState = "idle"
                  THEN queued'.escalationState = "escalated_pending"
                  ELSE /\ queued'.escalationState = queued.escalationState
                       /\ queued'.escalationReason = queued.escalationReason]_vars

\* The state has been pending once and is terminal now, and two polls of the
\* metrics of its conversation overlap.
C5_Witness ==
    /\ pendingEntries = 1
    /\ state.escalationState \in TerminalStates
    /\ metricsLive[state.conversationId] = 2

\* C6: every change of the shown escalation state is idle -> pending,
\* pending -> confirmed, overridden or failed, or a change to idle; a
\* confirmed, overridden or failed state changes to nothing but idle.
C6_LegalEdgesOnly ==
    [][state'.escalationState # state.escalationState =>
          \/ state'.escalationState = "idle"
          \/ /\ state.escalationState = "idle"
             /\ state'.escalationState = "escalated_pending"
          \/ /\ state.escalationState = "escalated_pending"
             /\ state'.escalationState \in TerminalStates]_vars

\* C7: once the timeout or a verification response has set a terminal
\* state, no later verification response and no later timeout changes the
\* escalation state, the confidence or the explanation.
C7_TimeoutExclusive ==
    [][K2CallbackStep /\ queued.escalationState \in TerminalStates =>
          /\ queued'.escalationState = queued.escalationState
          /\ queued'.k2Confidence = queued.k2Confidence
          /\ queued'.k2Explanation = queued.k2Explanation]_vars

\* C8: when the shown conversation changes from one conversation to
\* another, the state shown with the new conversation is idle with a zero
\* snapshot, no reason, no confidence and no explanation.
C8_FreshOnChange ==
    [][state.conversationId # "" /\ state'.conversationId # state.conversationId =>
          state' = ResetState(state')]_vars

C10_PollingOnlyWhilePending ==
    (k2Mounted # "" \/ k2TimeoutArmed \/ \E c \in Convs : k2Live[c] > 0)
        => state.escalationState = "escalated_pending"

\* --------------------------------------------- delivery queue claims, continued

\* The batches whose then-callback is chained on Promise.resolve() and has
\* not run yet.
FreshQueued == {b \in BatchIds : batches[b].status = "queued" /\ batches[b].prev = 0}

\* C11 as stated: the step of handleNewTurns for a conversation without an
\* entry in processingQueues leaves the first fetch of the batch issued.
C11_EagerStartInCall ==
    [][(/\ Len(batches') = Len(batches) + 1
        /\ processingQueues[batches'[Len(batches')].conversationId] = 0)
          => batches'[Len(batches')].phase = "fetch"]_vars

\* C11, amended: handleNewTurns for a conversation without an entry returns
\* with the then-callback queued as a microtask; nothing else runs before it,
\* and the step that follows the call issues the first fetch of the first
\* turn of that batch.
C11_StartsBeforeNextTask ==
    /\ [](\A b \in FreshQueued : b = Len(batches) /\ lastEvent.kind = "enqueue")
    /\ [][FreshQueued # {} =>
             /\ Len(batches') = Len(batches)
             /\ batches'[Len(batches)].status = "running"
             /\ batches'[Len(batches)].phase = "fetch"
             /\ batches'[Len(batches)].idx = 1
             /\ batches'[Len(batches)].attempts = 1
             /\ lastEvent' = Event("fetch", batches[Len(batches)].conversationId,
                                   batches[Len(batches)].turns[1], 1, 0)]_vars

\* The first fetch of a batch of "B" has just been issued while the batch of
\* "A" received before it is waiting for a retry.
C11_Witness ==
    /\ Len(batches) = 2
    /\ batches[1].conversationId = "A" /\ batches[1].phase = "wait"
    /\ batches[2].conversationId = "B" /\ batches[2].prev = 0
    /\ batches[2].phase = "fetch" /\ batches[2].idx = 1
    /\ lastEvent.kind = "fetch" /\ lastEvent.conversationId = "B"

\* The batches of the conversation of b received up to and including b.
UpTo(b) == {p \in 1..b : batches[p].conversationId = batches[b].conversationId}

\* Number of turns in the batches of the set S.
RECURSIVE TurnsIn(_)
TurnsIn(S) ==
    IF S = {} THEN 0
    ELSE LET p == CHOOSE x \in S : TRUE
         IN  Len(batches[p].turns) + TurnsIn(S \ {p})

\* C12: sendResponse has been called for a message exactly when the promise
\* of its batch has settled; by then every batch received before it for the
\* same conversation has settled, every turn of those batches has had its
\* terminal outcome, and no fetch or retry wait of the batch is outstanding;
\* after the response nothing of the batch changes any more.
C12_ResponseAfterSettle ==
    /\ [](\A b \in BatchIds :
             /\ batches[b].responded <=> batches[b].status = "settled"
             /\ batches[b].responded =>
                    /\ batches[b].phase = "none"
                    /\ \A p \in UpTo(b) : batches[p].status = "settled"
                    /\ terminal[batches[b].conversationId] >= TurnsIn(UpTo(b)))
    /\ [][\A b \in BatchIds :
              batches[b].responded => batches'[b] = batches[b]]_vars

\* The first message of "A" has been answered; the second one, chained on
\* it, is in a retry wait on its second turn and has not been answered.
C12_Witness ==
    /\ Len(batches) = 2
    /\ batches[1].conversationId = "A" /\ batches[2].conversationId = "A"
    /\ batches[1].responded
    /\ batches[2].idx = 2 /\ batches[2].phase = "wait"
    /\ ~batches[2].responded

\* C13: processingQueues holds an entry for a conversation exactly when a
\* batch of that conversation has not settled, and the entry is the promise
\* of the batch received last for it; a batch received while another one of
\* its conversation is unsettled is chained on that one, and a batch received
\* after the entry was deleted is chained on Promise.resolve().
C13_QueueEntryLifecycle ==
    /\ \A c \in Convs :
           LET mine == {b \in BatchIds : batches[b].conversationId = c}
               open == {b \in mine : batches[b].status # "settled"}
           IN  IF open = {}
               THEN processingQueues[c] = 0
               ELSE /\ processingQueues[c] \in open
                    /\ \A b \in mine : b <= processingQueues[c]
    /\ \A b \in BatchIds :
           LET earlier == {p \in UpTo(b) : p < b}
           IN  IF batches[b].prev = 0
               THEN \A p \in earlier : batches[p].status = "settled"
               ELSE /\ batches[b].prev \in earlier
                    /\ \A p \in earlier : p <= batches[b].prev

\* The first batch of "A" has settled while the second, chained on it, is
\* still running: the entry of "A" is the second batch.
C13_Witness ==
    /\ Len(batches) = 2
    /\ batches[1].conversationId = "A" /\ batches[2].conversationId = "A"
    /\ batches[2].prev = 1
    /\ batches[1].status = "settled" /\ batches[2].status = "running"
    /\ processingQueues["A"] = 2

\* --------------------------------------------------- Sidebar claims, continued

\* C14: a metrics fetch that throws or returns a non-success status changes
\* no displayed value and no queued one, and leaves the interval of its
\* closure live; once the effects of a commit have run, the metrics interval
\* of the shown conversation is live in every escalation state, and the
\* poller is replaced only when the conversation id has changed.
C14_LastKnownGood ==
    /\ [](~effectsPending /\ state.conversationId # ""
              => metricsMounted = state.conversationId)
    /\ [][/\ \A c \in Convs : MetricsFetchFails(c) =>
                 /\ queued' = queued
                 /\ state' = state
                 /\ metricsMounted' = c
                 /\ metricsLive'[c] < MaxInFlight
          /\ metricsMounted' # metricsMounted =>
                 state.conversationId # deps.conversationId]_vars

\* The state is terminal, a non-zero snapshot is shown, and a metrics fetch
\* of the shown conversation is in flight.
C14_Witness ==
    /\ state.escalationState \in TerminalStates
    /\ state.driftScore = 18 /\ state.activeCommitments = 2
    /\ queued = state
    /\ ~effectsPending
    /\ metricsLive[state.conversationId] > 0

\* C15: a shown escalated_pending is always followed by a shown state that is
\* not escalated_pending, whatever the verification polls return short of a
\* result; the timeout goes from unarmed to armed only in the effects of the
\* commit that entered escalated_pending or changed the conversation, and no
\* metrics response arms it.
C15_PendingResolves ==
    /\ (state.escalationState = "escalated_pending")
           ~> (state.escalationState # "escalated_pending")
    /\ [][/\ (~k2TimeoutArmed /\ k2TimeoutArmed') =>
                 /\ effectsPending
                 /\ \/ deps.escalationState # "escalated_pending"
                    \/ deps.conversationId # state.conversationId
          /\ \A c \in Convs, r \in MetricsResponses :
                 MetricsResponse(c, r) =>
                     /\ k2TimeoutArmed' = k2TimeoutArmed
                     /\ k2Mounted' = k2Mounted]_vars

\* The timeout has ended a verification that produced no result.
C15_Witness ==
    /\ state.escalationState = "k2_failed"
    /\ state.k2Explanation = "K2 reasoning timed out. Heuristic result retained."
    /\ ~effectsPending
    /\ k2Mounted = "" /\ ~k2TimeoutArmed

\* The escalation state a verification response asks for, from pending.
K2Outcome(r) ==
    CASE r.status = "completed" /\ r.result_type = "confirmed"  -> "k2_confirmed"
      [] r.status = "completed" /\ r.result_type = "overridden" -> "k2_overridden"
      [] r.status = "failed"                                    -> "k2_failed"
      [] OTHER                                                  -> "escalated_pending"

\* C16: while the escalation state is pending, a verification response sets
\* k2_confirmed exactly on status completed with result_type confirmed,
\* k2_overridden exactly on completed with overridden, k2_failed exactly on
\* status failed, and leaves pending on every other body; a fetch that
\* rejects or returns a non-success status leaves pending; and pending is
\* replaced by a terminal state by nothing but such a response or the
\* timeout, which sets k2_failed.
C16_TransitionGuards ==
    [][(state.escalationState = "escalated_pending"
            /\ queued.escalationState = "escalated_pending") =>
          /\ \A c \in Convs, r \in K2Responses :
                 K2Response(c, r) => queued'.escalationState = K2Outcome(r)
          /\ \A c \in Convs :
                 K2FetchFails(c) => queued'.escalationState = "escalated_pending"
          /\ queued'.escalationState \in TerminalStates =>
                 \/ K2Timeout /\ queued'.escalationState = "k2_failed"
                 \/ \E c \in Convs, r \in K2Responses :
                        K2Response(c, r) /\ K2Outcome(r) = queued'.escalationState]_vars

\* Pending is shown, a response with status completed and result_type
\* overridden has set k2_overridden, and the render has not happened yet.
C16_Witness ==
    /\ state.escalationState = "escalated_pending"
    /\ queued.escalationState = "k2_overridden"
    /\ queued.k2Explanation = "explained"
    /\ k2TimeoutArmed

\* ------------------------------------- delivery queue claims: termination

\* Batch b has been received and its promise has settled.
Settled(b) == IF b \in BatchIds THEN batches[b].status = "settled" ELSE FALSE

\* The for loop of batch b is at its i-th turn.
AtTurn(b, i) ==
    IF b \in BatchIds THEN batches[b].status = "running" /\ batches[b].idx = i
    ELSE FALSE

\* C17: when every fetch settles and every retry timeout fires, the promise
\* of every batch received settles, and a batch that is at one of its turns,
\* whether that turn is then delivered or dropped, gets past it: it reaches
\* its next turn or settles.
C17_DeliveryTerminates ==
    /\ \A b \in 1..MaxBatches : (b \in BatchIds) ~> Settled(b)
    /\ \A b \in 1..MaxBatches : \A i \in 1..MaxTurnId :
           AtTurn(b, i) ~> (Settled(b) \/ AtTurn(b, i + 1))

\* Both batches of "A" have settled, the last turn having been dropped after
\* the retries were used up.
C17_Witness ==
    /\ Len(batches) = 2
    /\ Settled(1) /\ Settled(2)
    /\ batches[1].conversationId = "A" /\ batches[2].conversationId = "A"
    /\ Len(batches[2].turns) = 2
    /\ terminal["A"] = Len(batches[1].turns) + 2
    /\ lastEvent.kind = "drop" /\ lastEvent.attempt = 4

\* C18: no promise of a batch rejects, whatever way its fetches fail: a batch
\* settles fulfilled, with its for loop at its last turn, and a batch chained
\* on another one is never skipped; the step that handles a failure leaves
\* the batch waiting for a retry, at its next turn, or fulfilled.
C18_NoFailureEscapes ==
    /\ \A b \in BatchIds :
           /\ batches[b].outcome # "rejected"
           /\ batches[b].status = "settled" =>
                  /\ batches[b].outcome = "fulfilled"
                  /\ batches[b].idx = Len(batches[b].turns)
           /\ batches[b].status # "settled" => batches[b].outcome = "pending"
    /\ lastEvent.kind # "skip"
    /\ lastEvent.kind = "retry" =>
           \E b \in BatchIds : batches[b].phase = "wait" /\ batches[b].status = "running"

\* The first batch of "A" has settled after its last turn was tried four
\* times; the batch chained on it has started.
C18_Witness ==
    /\ Len(batches) = 2
    /\ batches[1].attempts = 4
    /\ batches[1].status = "settled" /\ batches[1].outcome = "fulfilled"
    /\ batches[2].prev = 1
    /\ batches[2].status = "running" /\ batches[2].idx = 1

C20_ChangeLeavesQueue ==
    /\ [](\A c \in Convs : IsPrefix(sent[c], Enqueued(c)))
    /\ [][/\ (url' # url \/ currentConversationId' # currentConversationId) =>
                 UNCHANGED workerVars
          /\ \A b \in BatchIds :
                 /\ batches'[b].conversationId = batches[b].conversationId
                 /\ batches'[b].turns = batches[b].turns
                 /\ batches'[b].idx >= batches[b].idx
          /\ \A c \in Convs : IsPrefix(sent[c], sent'[c])]_vars

\* The content script is on "B" while the batch of "A" is waiting for a
\* retry on its first turn, with its entry in processingQueues.
C20_Witness ==
    /\ currentConversationId = "B" /\ url = "B"
    /\ Len(batches) >= 1
    /\ batches[1].conversationId = "A"
    /\ batches[1].phase = "wait" /\ batches[1].idx = 1
    /\ Len(batches[1].turns) = 2
    /\ processingQueues["A"] = 1

\* ---------------------------------------------------------------- C21 .. C30

StorageQuiet == storageSets = {} /\ \A n \in 1..MaxAlerts : storageGets[n] = 0

\* C21: the alert side effects are order-independent and idempotent: from the
\* badge and stored alerts the worker is in, applying two results in either
\* order gives the same badge and stored alerts, and applying one result twice
\* gives the same as applying it once.
C21_SideEffectsCommuteAndIdempotent ==
    LET s == [badge |-> badge, alerts |-> storedAlerts] IN
    \A a, b \in 0..MaxAlerts :
        /\ alertSideEffects(alertSideEffects(s, a), b)
              = alertSideEffects(alertSideEffects(s, b), a)
        /\ alertSideEffects(alertSideEffects(s, a), a) = alertSideEffects(s, a)

\* The escalation state of the Sidebar under the name GraphView gives it.
GraphStatusOf(escalationState) ==
    CASE escalationState = "idle"              -> "idle"
      [] escalationState = "escalated_pending" -> "pending"
      [] escalationState = "k2_confirmed"      -> "confirmed"
      [] escalationState = "k2_overridden"     -> "overridden"
      [] escalationState = "k2_failed"         -> "failed"

\* C25: while GraphView is mounted on one conversation its k2.status moves
\* only from idle to pending and from pending to confirmed, overridden or
\* failed, and a verification response that finds it pending leaves the
\* status pollK2 of the Sidebar gives for that response.
C25_GraphK2Lifecycle ==
    [][(graphAlive /\ graphAlive' /\ graphConversationId' = graphConversationId)
       => /\ \/ graphView'.k2.status = graphView.k2.status
             \/ graphView.k2.status = "idle" /\ graphView'.k2.status = "pending"
             \/ /\ graphView.k2.status = "pending"
                /\ graphView'.k2.status \in {"confirmed", "overridden", "failed"}
          /\ \A p \in GraphSlots, k \in GraphK2Responses :
                (GraphK2Response(p, k) /\ graphView.k2.status = "pending")
                => graphView'.k2.status =
                       GraphStatusOf(K2Outcome(
                           [status |-> k.status, result_type |-> k.result_type,
                            k2_confidence |-> k.k2_confidence,
                            k2_explanation |-> k.k2_explanation]))]_vars

\* C26: a response of a poll that was started for another conversation than
\* the one GraphView now has leaves every displayed value as it is.
C26_StalePollDiscarded ==
    [][\A p \in GraphSlots :
          (/\ graphAlive /\ graphAlive'
           /\ graphConversationId' = graphConversationId
           /\ graphPolls[p] # NoPoll
           /\ graphPolls[p].conv # graphConversationId
           /\ graphPolls'[p] # graphPolls[p])
          => graphView' = graphView]_vars

\* C30: the batching worker has at most one submission in flight for a
\* conversation, submits the turns of a conversation in the order they
\* arrived, and loses no turn: every turn that arrived is pending, or in a
\* run that has submitted it or still will.
C30_BatchedInOrder ==
    \A c \in Convs :
        /\ Cardinality({r \in RunIds : /\ batchRuns[r].conversationId = c
                                       /\ batchRuns[r].phase = "fetch"}) <= 1
        /\ \A i \in 1..Len(batchSent[c]) : \A j \in 1..Len(batchSent[c]) :
               i < j => \/ batchSent[c][i][1] < batchSent[c][j][1]
                        \/ /\ batchSent[c][i][1] = batchSent[c][j][1]
                           /\ batchSent[c][i][2] < batchSent[c][j][2]
        /\ \A r \in RunIds :
               (batchRuns[r].conversationId = c /\ batchRuns[r].phase = "done")
               => batchRuns[r].idx = Len(batchRuns[r].turns)

\* C27: once every storage callback has run, the 'alerts' list holds every
\* alert the backend returned.
C27_NoAlertLost == StorageQuiet => storedAlerts = returnedAlerts

Pushed(c) ==
    UNION {{batches[b].turns[k] : k \in 1..Len(batches[b].turns)} :
             b \in {n \in BatchIds : batches[n].conversationId = c}}

\* C23: every NEW_TURNS message holds only ids above every id of the earlier
\* messages with the same conversation id.
C23_MonotonePushes ==
    \A i \in BatchIds : \A j \in BatchIds :
        (i < j /\ batches[i].conversationId = batches[j].conversationId)
        => \A x \in 1..Len(batches[i].turns) : \A y \in 1..Len(batches[j].turns) :
               batches[i].turns[x] < batches[j].turns[y]

\* C28: while the timeout of onConversationChanged is pending, a step that is
\* not that timeout sends no NEW_TURNS message extracted from the DOM of
\* another conversation than the one in the URL.
C28_NoSendFromPreviousDom ==
    [][(/\ settleTimers > 0 /\ settleTimers' = settleTimers
        /\ Len(batches') > Len(batches))
       => domConv = url]_vars

\* C29: lastSeenTurnId is past a turn only if the turn was handed to the
\* worker under the current conversation id.
C29_NoTurnSkipped ==
    \A i \in 1..lastSeenTurnId : i \in Pushed(currentConversationId)

\* C24: the meter shows green/Stable for scores from 0 to 1.0, yellow/Tension
\* Building from 1.0 to 2.0, and red/Escalated for 2.0 and above (either
\* neighbouring band at the shared ends 1.0 and 2.0).
C24_ReadmeBands ==
    LET green  == [color |-> "green",  status |-> "Stable"]
        yellow == [color |-> "yellow", status |-> "Tension Building"]
        red    == [color |-> "red",    status |-> "Escalated"]
    IN /\ meterScore < 10 => meterShown = green
       /\ meterScore = 10 => meterShown \in {green, yellow}
       /\ (meterScore > 10 /\ meterScore < 20) => meterShown = yellow
       /\ meterScore = 20 => meterShown \in {yellow, red}
       /\ meterScore > 20 => meterShown = red

====
